---- MODULE Spec2Model ----
(***************************************************************************)
(* Model of roads.go: the two Roads API operations of the maps client,     *)
(* Client.SnapToRoad and Client.SpeedLimits.  Each call validates its      *)
(* request, makes an unbuffered result channel, spawns one goroutine that  *)
(* runs doGetSnapToRoad / doGetSpeedLimits and sends the pair it returns   *)
(* on the channel, and then selects between that channel and ctx.Done().   *)
(***************************************************************************)
EXTENDS Integers, Sequences, FiniteSets, TLC

\* Number of calls made on the client, each with its own context.
NumCalls == 1

Calls == 1..NumCalls

\* The nil pointer / nil error / empty string of Go.
Nil == "nil"

\* ---------------------------------------------------------------- inputs

\* LatLng values used as path elements.
c1 == [lat |-> 1, lng |-> 2]
c2 == [lat |-> -3, lng |-> 4]

\* SnapToRoadRequest values the calls are made with.
SnapToRoadRequests ==
    { [op |-> "SnapToRoad", Path |-> <<>>, PlaceID |-> <<>>,
       Interpolate |-> FALSE, Units |-> ""],
      [op |-> "SnapToRoad", Path |-> <<c1, c2>>, PlaceID |-> <<>>,
       Interpolate |-> TRUE, Units |-> ""] }

\* SpeedLimitsRequest values the calls are made with.
SpeedLimitsRequests ==
    { [op |-> "SpeedLimits", Path |-> <<>>, PlaceID |-> <<>>,
       Interpolate |-> FALSE, Units |-> ""],
      [op |-> "SpeedLimits", Path |-> <<c1>>, PlaceID |-> <<>>,
       Interpolate |-> FALSE, Units |-> "MPH"],
      [op |-> "SpeedLimits", Path |-> <<>>, PlaceID |-> <<"a", "b">>,
       Interpolate |-> FALSE, Units |-> ""] }

\* Longest Path and longest PlaceID list of the requests the query
\* construction is checked on.
MaxPathLen == 2
MaxPlaceIDs == 2

\* Every sequence over S of length at most n.
SeqUpTo(S, n) == UNION {[1..k -> S] : k \in 0..n}

\* Every SnapToRoadRequest with a Path of at most MaxPathLen coordinates.
AllSnapToRoadRequests ==
    { [op |-> "SnapToRoad", Path |-> p, PlaceID |-> <<>>,
       Interpolate |-> i, Units |-> ""] :
        p \in SeqUpTo({c1, c2}, MaxPathLen), i \in BOOLEAN }

\* Every SpeedLimitsRequest with at most MaxPathLen coordinates and at most
\* MaxPlaceIDs place ids.
AllSpeedLimitsRequests ==
    UNION { { [op |-> "SpeedLimits", Path |-> p, PlaceID |-> ids,
               Interpolate |-> FALSE, Units |-> u] :
                p \in SeqUpTo({c1, c2}, MaxPathLen),
                ids \in SeqUpTo({"a", "b"}, MaxPlaceIDs) } :
            u \in {"", "MPH", "KPH"} }

\* Values of the client's baseURL field: unset, and a string that net/url
\* cannot parse.
BaseURLs == {"", "%zz"}

\* The reason a context reports once its Done channel is closed.
CtxErrors == {"context canceled"}

\* What the collaborators can answer.
AuthErrors == {"auth: missing credentials"}
TransportErrors == {"transport: connection refused"}
DecodeErrors == {"json: unexpected end of input"}
Bodies == {"valid", "malformed"}

SnapToRoadValidationError == "snapToRoad: You must specify a Path"
SpeedLimitsValidationError == "speedLimits: You must specify a Path or PlaceID"
NewRequestError == "parse: invalid URL escape"

\* The nil response pointer.
NilResponse == [call |-> 0, type |-> "nil", content |-> "nil"]

\* The value of a pair nobody has produced yet, and of a request not yet made.
NoPair == [response |-> NilResponse, err |-> "none"]
NoRequest == [op |-> "none"]

VARIABLES
    baseURL,      \* c.baseURL
    ctxErr,       \* per call: ctx.Err(); Nil while ctx.Done() is open
    req,          \* per call: the request r the call was made with
    callerPc,     \* per call: "idle", "select" (the goroutine is started, the
                  \*   select not yet executed), "blocked" (parked in select),
                  \*   "wokeResult" / "wokeDone" (a case was completed by the
                  \*   other side, the caller not yet resumed), "returned"
    ret,          \* per call: the pair the call returned
    retVia,       \* per call: the return statement taken
    retCount,     \* per call: number of returns to the caller
    spawned,      \* per call: number of goroutines started
    workerPc,     \* per call: "none", "sign", "http", "inflight", "decode",
                  \*   "send", "parked" (blocked in the channel send), "done"
    query,        \* per call: the url.Values handed to generateAuthQuery
    workerOut,    \* per call: the pair doGet... returned
    chResult,     \* per call: the value received from the channel chResult
    authCalls,    \* per call: number of generateAuthQuery calls
    httpCalls,    \* per call: number of httpDo calls
    decodeCalls,  \* per call: number of Decode calls
    authErr,      \* per call: the error generateAuthQuery returned
    httpErr,      \* per call: the error httpDo returned
    httpResp,     \* per call: the body of the response httpDo returned
    firedEarly,   \* per call: ctx.Done() was closed while httpDo had not
                  \*   returned in the goroutine of the call
    ctxAtCall     \* per call: what ctx.Err() was when the call was made

vars == <<baseURL, ctxErr, req, callerPc, ret, retVia, retCount, spawned,
          workerPc, query, workerOut, chResult, authCalls, httpCalls,
          decodeCalls, authErr, httpErr, httpResp, firedEarly, ctxAtCall>>

callerVars == <<callerPc, ret, retVia, retCount>>
doGetVars == <<query, workerOut, authCalls, httpCalls, decodeCalls, authErr,
               httpErr, httpResp>>

\* ------------------------------------------------------- pure functions

\* Variant of SnapToRoadInvalid with the test inverted.
SnapToRoadInvalidInverted(r) == Len(r.Path) # 0

\* len(r.Path) == 0 (SnapToRoad's validation).
SnapToRoadInvalid(r) == Len(r.Path) = 0

\* Variant of SpeedLimitsInvalid with || in place of &&.
SpeedLimitsInvalidEither(r) == Len(r.Path) = 0 \/ Len(r.PlaceID) = 0

\* len(r.Path) == 0 && len(r.PlaceID) == 0 (SpeedLimits' validation).
SpeedLimitsInvalid(r) == Len(r.Path) = 0 /\ Len(r.PlaceID) = 0

\* LatLng.String(): "lat,lng".
String(e) == ToString(e.lat) \o "," \o ToString(e.lng)

\* strings.Join(p, sep).
RECURSIVE Join(_, _)
Join(p, sep) ==
    IF Len(p) = 0 THEN ""
    ELSE IF Len(p) = 1 THEN p[1]
    ELSE p[1] \o sep \o Join(Tail(p), sep)

\* Variant of PathStrings that collects the elements last to first.
PathStringsReversed(path) ==
    [i \in 1..Len(path) |-> String(path[Len(path) + 1 - i])]

\* The loop `for _, e := range r.Path { p = append(p, e.String()) }`.
PathStrings(path) == [i \in 1..Len(path) |-> String(path[i])]

\* url.Values: each key's list of values; an empty list is an absent key.
QueryKeys == {"path", "interpolate", "placeId", "units"}
EmptyQuery == [k \in QueryKeys |-> <<>>]

\* Variant of Add that replaces the values the key already has.
AddReplaces(q, k, v) == [q EXCEPT ![k] = <<v>>]

\* url.Values.Set and url.Values.Add.
Set(q, k, v) == [q EXCEPT ![k] = <<v>>]
Add(q, k, v) == [q EXCEPT ![k] = Append(@, v)]

\* The loop `for _, id := range r.PlaceID { q.Add("placeId", id) }`.
RECURSIVE AddPlaceIDs(_, _)
AddPlaceIDs(q, ids) ==
    IF Len(ids) = 0 THEN q
    ELSE AddPlaceIDs(Add(q, "placeId", ids[1]), Tail(ids))

\* Variant of SnapToRoadQuery that always writes the interpolate parameter,
\* with the flag as its value.
SnapToRoadQueryAlwaysInterpolate(r) ==
    Set(Set(EmptyQuery, "path", Join(PathStrings(r.Path), "|")),
        "interpolate", IF r.Interpolate THEN "true" ELSE "false")

\* The query doGetSnapToRoad builds from r.
SnapToRoadQuery(r) ==
    LET q1 == Set(EmptyQuery, "path", Join(PathStrings(r.Path), "|"))
    IN  IF r.Interpolate THEN Set(q1, "interpolate", "true") ELSE q1

\* The query doGetSpeedLimits builds from r.
SpeedLimitsQuery(r) ==
    LET p  == PathStrings(r.Path)
        q1 == IF Len(p) > 0 THEN Set(EmptyQuery, "path", Join(p, "|"))
              ELSE EmptyQuery
        q2 == AddPlaceIDs(q1, r.PlaceID)
    IN  IF r.Units # "" THEN Set(q2, "units", r.Units) ELSE q2

\* The URL the request is made for: baseURL + endpoint, with the default
\* base when c.baseURL is unset.
RequestURL(base, endpoint) ==
    (IF base # "" THEN base ELSE "https://roads.googleapis.com/") \o endpoint

\* http.NewRequest fails when the URL does not parse.
NewRequestFails(url) == url \in {"%zz/v1/snapToRoads", "%zz/v1/speedLimits"}

Endpoint(r) ==
    IF r.op = "SnapToRoad" THEN "/v1/snapToRoads" ELSE "/v1/speedLimits"

BuildQuery(r) ==
    IF r.op = "SnapToRoad" THEN SnapToRoadQuery(r) ELSE SpeedLimitsQuery(r)

\* Variant of Response in which the calls fill one response object kept in
\* the client.
ResponseShared(c, body) ==
    [call |-> 1,
     type |-> IF req[c].op = "SnapToRoad" THEN "SnapToRoadResponse"
              ELSE "SpeedLimitsResponse",
     content |-> IF body = "valid" THEN "decoded" ELSE "partial"]

\* The response object of call c: `response := &...Response{}`, then filled
\* by Decode from the body.
Response(c, body) ==
    [call |-> c,
     type |-> IF req[c].op = "SnapToRoad" THEN "SnapToRoadResponse"
              ELSE "SpeedLimitsResponse",
     content |-> IF body = "valid" THEN "decoded" ELSE "partial"]

\* json.Decoder.Decode: nil for a well-formed body, an error otherwise.
DecodeErr(body) ==
    IF body = "valid" THEN Nil ELSE "json: unexpected end of input"

Pair(resp, err) == [response |-> resp, err |-> err]

\* ----------------------------------------------------------------- Init

\* The state before any of the calls of the set S is made.
InitOn(S) ==
    /\ baseURL \in BaseURLs
    /\ ctxErr = [c \in S |-> Nil]
    /\ req = [c \in S |-> NoRequest]
    /\ callerPc = [c \in S |-> "idle"]
    /\ ret = [c \in S |-> NoPair]
    /\ retVia = [c \in S |-> "none"]
    /\ retCount = [c \in S |-> 0]
    /\ spawned = [c \in S |-> 0]
    /\ workerPc = [c \in S |-> "none"]
    /\ query = [c \in S |-> EmptyQuery]
    /\ workerOut = [c \in S |-> NoPair]
    /\ chResult = [c \in S |-> NoPair]
    /\ authCalls = [c \in S |-> 0]
    /\ httpCalls = [c \in S |-> 0]
    /\ decodeCalls = [c \in S |-> 0]
    /\ authErr = [c \in S |-> "none"]
    /\ httpErr = [c \in S |-> "none"]
    /\ httpResp = [c \in S |-> "none"]
    /\ firedEarly = [c \in S |-> FALSE]
    /\ ctxAtCall = [c \in S |-> "none"]

Init == InitOn(Calls)

\* ------------------------------------------------------------- the caller

\* A return statement of SnapToRoad / SpeedLimits.
Return(c, pair, via) ==
    /\ callerPc' = [callerPc EXCEPT ![c] = "returned"]
    /\ ret' = [ret EXCEPT ![c] = pair]
    /\ retVia' = [retVia EXCEPT ![c] = via]
    /\ retCount' = [retCount EXCEPT ![c] = @ + 1]

\* Variant of Spawn that looks at the context first: with the context already
\* cancelled the call returns (nil, ctx.Err()) and starts no goroutine.
SpawnUnlessCancelled(c) ==
    IF ctxErr[c] # Nil
    THEN /\ callerPc' = [callerPc EXCEPT ![c] = "returned"]
         /\ ret' = [ret EXCEPT ![c] = [response |-> NilResponse,
                                       err |-> ctxErr[c]]]
         /\ retVia' = [retVia EXCEPT ![c] = "ctxDone"]
         /\ retCount' = [retCount EXCEPT ![c] = @ + 1]
         /\ UNCHANGED <<spawned, workerPc>>
    ELSE /\ callerPc' = [callerPc EXCEPT ![c] = "select"]
         /\ spawned' = [spawned EXCEPT ![c] = @ + 1]
         /\ workerPc' = [workerPc EXCEPT ![c] = "sign"]
         /\ UNCHANGED <<ret, retVia, retCount>>

\* `chResult := make(chan ...)`, `go func() {...}()`: the call goes on to
\* its select with one goroutine started.
Spawn(c) ==
    /\ callerPc' = [callerPc EXCEPT ![c] = "select"]
    /\ spawned' = [spawned EXCEPT ![c] = @ + 1]
    /\ workerPc' = [workerPc EXCEPT ![c] = "sign"]
    /\ UNCHANGED <<ret, retVia, retCount>>

\* Variant of ValidationPair that looks at the context first and reports its
\* error when it is already cancelled.
ValidationPairCtxFirst(c, err) ==
    Pair(NilResponse, IF ctxErr[c] # Nil THEN ctxErr[c] ELSE err)

\* What a failed validation returns: `return nil, errors.New(...)`, with no
\* look at ctx.
ValidationPair(c, err) == Pair(NilResponse, err)

\* SnapToRoad(ctx, r) up to its select, r any request of the set requests.
SnapToRoadWith(c, requests) ==
    /\ callerPc[c] = "idle"
    /\ \E r \in requests :
        /\ req' = [req EXCEPT ![c] = r]
        /\ IF SnapToRoadInvalid(r)
           THEN /\ Return(c, ValidationPair(c, SnapToRoadValidationError),
                          "validation")
                /\ UNCHANGED <<spawned, workerPc>>
           ELSE Spawn(c)
    /\ ctxAtCall' = [ctxAtCall EXCEPT ![c] = ctxErr[c]]
    /\ UNCHANGED <<baseURL, ctxErr, doGetVars, chResult, firedEarly>>

\* SnapToRoad(ctx, r) up to its select.
SnapToRoad(c) == SnapToRoadWith(c, SnapToRoadRequests)

\* SpeedLimits(ctx, r) up to its select, r any request of the set requests.
SpeedLimitsWith(c, requests) ==
    /\ callerPc[c] = "idle"
    /\ \E r \in requests :
        /\ req' = [req EXCEPT ![c] = r]
        /\ IF SpeedLimitsInvalid(r)
           THEN /\ Return(c, ValidationPair(c, SpeedLimitsValidationError),
                          "validation")
                /\ UNCHANGED <<spawned, workerPc>>
           ELSE Spawn(c)
    /\ ctxAtCall' = [ctxAtCall EXCEPT ![c] = ctxErr[c]]
    /\ UNCHANGED <<baseURL, ctxErr, doGetVars, chResult, firedEarly>>

\* SpeedLimits(ctx, r) up to its select.
SpeedLimits(c) == SpeedLimitsWith(c, SpeedLimitsRequests)

\* Variant of ReceivedPair that drops the response whenever an error came
\* with it.
ReceivedPairErrorOnly(resp) ==
    Pair(IF resp.err # Nil THEN NilResponse ELSE resp.response, resp.err)

\* What `case resp := <-chResult` returns: resp.response, resp.err.
ReceivedPair(resp) == Pair(resp.response, resp.err)

\* Variant of CancelledPair that hands out the response the goroutine has
\* produced so far together with ctx.Err().
CancelledPairMixed(c) == Pair(workerOut[c].response, ctxErr[c])

\* What `case <-ctx.Done()` returns: nil, ctx.Err().
CancelledPair(c) == Pair(NilResponse, ctxErr[c])

\* The cases of the select that can proceed when the caller executes it: the
\* receive when the goroutine is parked in its send, the Done case when Done
\* is closed.  (DoneReadyNever: a select that has no Done case.)
ResultReady(c) == workerPc[c] = "parked"
DoneReadyNever(c) == FALSE
DoneReady(c) == ctxErr[c] # Nil

\* The caller executes `select { case resp := <-chResult: ... case
\* <-ctx.Done(): ... }`.  With several cases ready Go takes any one of them;
\* with none ready the caller parks on both channels.
Select(c) ==
    /\ callerPc[c] = "select"
    /\ \/ /\ ResultReady(c)
          /\ chResult' = [chResult EXCEPT ![c] = workerOut[c]]
          /\ workerPc' = [workerPc EXCEPT ![c] = "done"]
          /\ Return(c, ReceivedPair(workerOut[c]), "chResult")
       \/ /\ DoneReady(c)
          /\ Return(c, CancelledPair(c), "ctxDone")
          /\ UNCHANGED <<chResult, workerPc>>
       \/ /\ ~ResultReady(c)
          /\ ~DoneReady(c)
          /\ callerPc' = [callerPc EXCEPT ![c] = "blocked"]
          /\ UNCHANGED <<ret, retVia, retCount, chResult, workerPc>>
    /\ UNCHANGED <<baseURL, ctxErr, req, spawned, doGetVars, firedEarly,
                   ctxAtCall>>

\* The caller, parked in select, was woken through one of the two channels
\* and runs the body of that case.
SelectWake(c) ==
    /\ \/ /\ callerPc[c] = "wokeResult"
          /\ Return(c, ReceivedPair(chResult[c]), "chResult")
       \/ /\ callerPc[c] = "wokeDone"
          /\ Return(c, CancelledPair(c), "ctxDone")
    /\ UNCHANGED <<baseURL, ctxErr, req, spawned, workerPc, doGetVars,
                   chResult, firedEarly, ctxAtCall>>

\* The goroutine of call c is past its httpDo call, or ended before making it.
NetworkCallReturned(c) == workerPc[c] \in {"decode", "send", "parked", "done"}

\* The context of call c is cancelled or its deadline passes: Err() reports
\* the reason from then on and Done is closed, which completes the Done case
\* of a caller parked in select.
Cancel(c) ==
    /\ ctxErr[c] = Nil
    /\ \E e \in CtxErrors : ctxErr' = [ctxErr EXCEPT ![c] = e]
    /\ firedEarly' = [firedEarly EXCEPT ![c] = ~NetworkCallReturned(c)]
    /\ callerPc' = [callerPc EXCEPT
                      ![c] = IF @ = "blocked" THEN "wokeDone" ELSE @]
    /\ UNCHANGED <<baseURL, req, ret, retVia, retCount, spawned, workerPc,
                   doGetVars, chResult, ctxAtCall>>

\* ----------------------------------------------------------- the goroutine

\* Variant of AfterDoGet in which the goroutine ends without sending when
\* doGet... returned an error.
AfterDoGetSendsOnlySuccess(pair) == IF pair.err # Nil THEN "done" ELSE "send"

\* `resp, err := c.doGet...(r); chResult <- ...{resp, err}`: whatever pair
\* doGet... returns, the goroutine goes on to send it.
AfterDoGet(pair) == "send"

\* doGet... returns pair.
DoGetReturns(c, pair) ==
    /\ workerOut' = [workerOut EXCEPT ![c] = pair]
    /\ workerPc' = [workerPc EXCEPT ![c] = AfterDoGet(pair)]

\* Variant of AuthFailed that ignores the error of generateAuthQuery.
AuthFailedIgnored(err) == FALSE

\* `if err != nil { return nil, err }` after generateAuthQuery.
AuthFailed(err) == err # Nil

\* Variant of HttpDoFailed that ignores the error of httpDo.
HttpDoFailedIgnored(err) == FALSE

\* `if err != nil { return nil, err }` after httpDo.
HttpDoFailed(err) == err # Nil

\* The pair of an early `return nil, err`.
ErrorPair(err) == Pair(NilResponse, err)

\* `return response, err` after Decode.
DecodePair(c, body) == Pair(Response(c, body), DecodeErr(body))

\* What httpDo can return: an error, or a response with some body.
HttpDoResults ==
    {[body |-> "none", err |-> e] : e \in TransportErrors}
        \cup {[body |-> b, err |-> Nil] : b \in Bodies}

\* Variant of BaseURLAfterDoGet that stores the default in the client when
\* c.baseURL is unset.
BaseURLAfterDoGetStoresDefault(base) ==
    IF base = "" THEN "https://roads.googleapis.com/" ELSE base

\* c.baseURL after doGet...: the function copies it into the local baseURL
\* and writes only that local.
BaseURLAfterDoGet(base) == base

\* The request after doGet...: Path and PlaceID are ranged over, Interpolate
\* and Units are read; nothing in r is assigned.
RequestAfterDoGet(r) == r

\* doGetSnapToRoad / doGetSpeedLimits from its start to the return of
\* generateAuthQuery: http.NewRequest, the query, the signing.
doGetSign(c) ==
    /\ workerPc[c] = "sign"
    /\ IF NewRequestFails(RequestURL(baseURL, Endpoint(req[c])))
       THEN /\ DoGetReturns(c, ErrorPair(NewRequestError))
            /\ UNCHANGED <<query, authCalls, authErr>>
       ELSE /\ query' = [query EXCEPT ![c] = BuildQuery(req[c])]
            /\ authCalls' = [authCalls EXCEPT ![c] = @ + 1]
            /\ \E err \in {Nil} \cup AuthErrors :
                /\ authErr' = [authErr EXCEPT ![c] = err]
                /\ IF AuthFailed(err)
                   THEN DoGetReturns(c, ErrorPair(err))
                   ELSE /\ workerPc' = [workerPc EXCEPT ![c] = "http"]
                        /\ UNCHANGED workerOut
    /\ baseURL' = BaseURLAfterDoGet(baseURL)
    /\ req' = [req EXCEPT ![c] = RequestAfterDoGet(@)]
    /\ UNCHANGED <<ctxErr, callerVars, spawned, chResult, httpCalls,
                   decodeCalls, httpErr, httpResp, firedEarly, ctxAtCall>>

\* Variant of httpDoCall in which the request can go out before it is signed.
httpDoCallUnsigned(c) ==
    /\ workerPc[c] \in {"sign", "http"}
    /\ httpCalls' = [httpCalls EXCEPT ![c] = @ + 1]
    /\ workerPc' = [workerPc EXCEPT ![c] = "inflight"]
    /\ UNCHANGED <<baseURL, ctxErr, req, callerVars, spawned, chResult, query,
                   workerOut, authCalls, decodeCalls, authErr, httpErr,
                   httpResp, firedEarly, ctxAtCall>>

\* `c.httpDo(req)` is called: the network call is in flight.
httpDoCall(c) ==
    /\ workerPc[c] = "http"
    /\ httpCalls' = [httpCalls EXCEPT ![c] = @ + 1]
    /\ workerPc' = [workerPc EXCEPT ![c] = "inflight"]
    /\ UNCHANGED <<baseURL, ctxErr, req, callerVars, spawned, chResult, query,
                   workerOut, authCalls, decodeCalls, authErr, httpErr,
                   httpResp, firedEarly, ctxAtCall>>

\* httpDo returns.
httpDoReturn(c) ==
    /\ workerPc[c] = "inflight"
    /\ \E r \in HttpDoResults :
        /\ httpErr' = [httpErr EXCEPT ![c] = r.err]
        /\ IF HttpDoFailed(r.err)
           THEN /\ DoGetReturns(c, ErrorPair(r.err))
                /\ UNCHANGED httpResp
           ELSE /\ httpResp' = [httpResp EXCEPT ![c] = r.body]
                /\ workerPc' = [workerPc EXCEPT ![c] = "decode"]
                /\ UNCHANGED workerOut
    /\ UNCHANGED <<baseURL, ctxErr, req, callerVars, spawned, chResult, query,
                   authCalls, httpCalls, decodeCalls, authErr, firedEarly,
                   ctxAtCall>>

\* `response := &...Response{}`, `err = json.NewDecoder(resp.Body).Decode(response)`,
\* `return response, err`.
doGetDecode(c) ==
    /\ workerPc[c] = "decode"
    /\ decodeCalls' = [decodeCalls EXCEPT ![c] = @ + 1]
    /\ DoGetReturns(c, DecodePair(c, httpResp[c]))
    /\ UNCHANGED <<baseURL, ctxErr, req, callerVars, spawned, chResult, query,
                   authCalls, httpCalls, authErr, httpErr, httpResp,
                   firedEarly, ctxAtCall>>

\* `chResult <- ...{resp, err}` on the unbuffered channel: the value goes
\* straight to a caller parked in select, which completes its receive case;
\* with no receiver waiting the goroutine parks in the send.
Send(c) ==
    /\ workerPc[c] = "send"
    /\ IF callerPc[c] = "blocked"
       THEN /\ chResult' = [chResult EXCEPT ![c] = workerOut[c]]
            /\ callerPc' = [callerPc EXCEPT ![c] = "wokeResult"]
            /\ workerPc' = [workerPc EXCEPT ![c] = "done"]
       ELSE /\ workerPc' = [workerPc EXCEPT ![c] = "parked"]
            /\ UNCHANGED <<chResult, callerPc>>
    /\ UNCHANGED <<baseURL, ctxErr, req, ret, retVia, retCount, spawned,
                   doGetVars, firedEarly, ctxAtCall>>

\* A step of the goroutine of call c.
Worker(c) ==
    \/ doGetSign(c)
    \/ httpDoCall(c)
    \/ httpDoReturn(c)
    \/ doGetDecode(c)
    \/ Send(c)

\* --------------------------------------------------------- specifications

Next ==
    \E c \in Calls :
        \/ SnapToRoad(c)
        \/ SpeedLimits(c)
        \/ Select(c)
        \/ SelectWake(c)
        \/ Cancel(c)
        \/ doGetSign(c)
        \/ httpDoCall(c)
        \/ httpDoReturn(c)
        \/ doGetDecode(c)
        \/ Send(c)

Spec == Init /\ [][Next]_vars

\* The goroutines and the callers are scheduled fairly and the collaborators
\* return; nothing obliges a context to be cancelled or a call to be made.
Fairness ==
    \A c \in Calls :
        /\ WF_vars(Select(c))
        /\ WF_vars(SelectWake(c))
        /\ WF_vars(doGetSign(c))
        /\ WF_vars(httpDoCall(c))
        /\ WF_vars(httpDoReturn(c))
        /\ WF_vars(doGetDecode(c))
        /\ WF_vars(Send(c))

FairSpec == Init /\ [][Next]_vars /\ Fairness

\* Only the callers are scheduled fairly: a goroutine may stay for ever where
\* it is, in particular inside httpDo.
CallerFairness ==
    \A c \in Calls :
        /\ WF_vars(Select(c))
        /\ WF_vars(SelectWake(c))

CallerFairSpec == Init /\ [][Next]_vars /\ CallerFairness

\* Two calls made on the same client, running concurrently.
ConcurrentCalls == {1, 2}

IsoNext ==
    \E c \in ConcurrentCalls :
        \/ SnapToRoad(c)
        \/ SpeedLimits(c)
        \/ Select(c)
        \/ SelectWake(c)
        \/ Cancel(c)
        \/ doGetSign(c)
        \/ httpDoCall(c)
        \/ httpDoReturn(c)
        \/ doGetDecode(c)
        \/ Send(c)

IsoSpec == InitOn(ConcurrentCalls) /\ [][IsoNext]_vars

\* One call on the client, with any request of the bounded request sets,
\* followed up to the return of generateAuthQuery: the steps that build the
\* query.
OnlyCall(c) == \A d \in Calls \ {c} : callerPc[d] = "idle"

QueryNext ==
    \E c \in Calls :
        \/ OnlyCall(c) /\ SnapToRoadWith(c, AllSnapToRoadRequests)
        \/ OnlyCall(c) /\ SpeedLimitsWith(c, AllSpeedLimitsRequests)
        \/ OnlyCall(c) /\ doGetSign(c)

QuerySpec == Init /\ [][QueryNext]_vars

\* ------------------------------------------------------------ properties

\* C1: a call that passed validation and whose context was cancelled while
\* the network call of its goroutine had not returned, returns
\* (nil, ctx.Err()) and not the pair of its goroutine, whatever httpDo
\* returns afterwards.  (A goroutine that ended without calling httpDo has no
\* network call to speak of.)
C1_CancelBeforeNetworkReturnWins ==
    \A c \in Calls :
        (/\ callerPc[c] = "returned"
         /\ spawned[c] = 1
         /\ firedEarly[c]
         /\ ~(NetworkCallReturned(c) /\ httpCalls[c] = 0)) =>
            /\ retVia[c] = "ctxDone"
            /\ ret[c] = Pair(NilResponse, ctxErr[c])

\* C2: in the pair a call returns exactly one of response and error is nil.
C2_ExactlyOneNonNil ==
    \A c \in Calls :
        callerPc[c] = "returned" =>
            (ret[c].response = NilResponse) # (ret[c].err = Nil)

\* C3: once the caller has returned because of cancellation and the network
\* call of its goroutine has returned, the goroutine can always take a
\* further step until it has ended: it never sits in a send that nobody will
\* receive.
C3_LateWorkerNotStuck ==
    \A c \in Calls :
        (/\ callerPc[c] = "returned"
         /\ retVia[c] = "ctxDone"
         /\ httpErr[c] # "none"
         /\ workerPc[c] # "done") => ENABLED Worker(c)

\* C4: a SnapToRoad call with an empty Path has returned (nil, validation
\* error) with no goroutine, no generateAuthQuery call and no httpDo call; a
\* SnapToRoad call with a non-empty Path never returns the validation error.
C4_SnapToRoadEmptyPathRejected ==
    \A c \in Calls :
        req[c].op = "SnapToRoad" =>
            IF Len(req[c].Path) = 0
            THEN /\ callerPc[c] = "returned"
                 /\ retVia[c] = "validation"
                 /\ ret[c] = Pair(NilResponse, SnapToRoadValidationError)
                 /\ spawned[c] = 0
                 /\ workerPc[c] = "none"
                 /\ authCalls[c] = 0
                 /\ httpCalls[c] = 0
            ELSE /\ retVia[c] # "validation"
                 /\ ret[c].err # SnapToRoadValidationError

\* C4 witness: a SnapToRoad call with an empty Path has been made.
C4_Witness ==
    \E c \in Calls :
        /\ req[c].op = "SnapToRoad"
        /\ Len(req[c].Path) = 0
        /\ callerPc[c] = "returned"

\* C5: a SpeedLimits call with empty Path and empty PlaceID has returned
\* (nil, validation error) with no goroutine and no httpDo call; a call with
\* Path or PlaceID non-empty never returns the validation error and has
\* started the goroutine that signs the query.
C5_SpeedLimitsEmptyRejected ==
    \A c \in Calls :
        req[c].op = "SpeedLimits" =>
            IF Len(req[c].Path) = 0 /\ Len(req[c].PlaceID) = 0
            THEN /\ callerPc[c] = "returned"
                 /\ retVia[c] = "validation"
                 /\ ret[c] = Pair(NilResponse, SpeedLimitsValidationError)
                 /\ spawned[c] = 0
                 /\ workerPc[c] = "none"
                 /\ httpCalls[c] = 0
            ELSE /\ retVia[c] # "validation"
                 /\ ret[c].err # SpeedLimitsValidationError
                 /\ spawned[c] = 1
                 /\ workerPc[c] # "none"

\* C5 witness: a SpeedLimits call with neither Path nor PlaceID has been
\* made.
C5_Witness ==
    \E c \in Calls :
        /\ req[c].op = "SpeedLimits"
        /\ Len(req[c].Path) = 0
        /\ Len(req[c].PlaceID) = 0
        /\ callerPc[c] = "returned"

\* C6: a call that passed validation returns at most once, and the pair it
\* returns is either the pair its goroutine produced, received from the
\* channel, or (nil, ctx.Err()) of its closed context, never parts of both.
C6_OneOutcomeOnce ==
    \A c \in Calls :
        /\ retCount[c] <= 1
        /\ (retCount[c] = 1) <=> (callerPc[c] = "returned")
        /\ (callerPc[c] = "returned" /\ spawned[c] = 1) =>
            \/ /\ retVia[c] = "chResult"
               /\ workerPc[c] = "done"
               /\ ret[c] = workerOut[c]
            \/ /\ retVia[c] = "ctxDone"
               /\ ctxErr[c] # Nil
               /\ ret[c] = Pair(NilResponse, ctxErr[c])

\* C6 witness: a call returned through the Done case while its goroutine
\* was holding a non-nil response.
C6_Witness ==
    \E c \in Calls :
        /\ callerPc[c] = "returned"
        /\ retVia[c] = "ctxDone"
        /\ workerOut[c].response # NilResponse

\* C7: the value the caller receives from the channel is the pair doGet...
\* returned, and a call that returns through the receive case returns both
\* components of that pair unchanged.
C7_HandoffUnchanged ==
    \A c \in Calls :
        /\ callerPc[c] = "wokeResult" => chResult[c] = workerOut[c]
        /\ retVia[c] = "chResult" =>
            /\ chResult[c] = workerOut[c]
            /\ ret[c].response = workerOut[c].response
            /\ ret[c].err = workerOut[c].err

\* C7 witness: with the context never cancelled, a call returned a pair whose
\* response and error are both non-nil, as doGet... produced it.
C7_Witness ==
    \E c \in Calls :
        /\ retVia[c] = "chResult"
        /\ ctxErr[c] = Nil
        /\ ret[c].err \in DecodeErrors
        /\ ret[c].response # NilResponse

\* C8: under fair scheduling, with collaborators that return, a call that
\* reached its select has its context cancelled or else returns the pair of
\* its goroutine through the channel, with the goroutine ended.
C8_NoCancelNoDeadlock ==
    \A c \in Calls :
        (callerPc[c] = "select") ~>
            (\/ ctxErr[c] # Nil
             \/ /\ callerPc[c] = "returned"
                /\ retVia[c] = "chResult"
                /\ ret[c] = workerOut[c]
                /\ workerPc[c] = "done")

\* C8 witness: a call whose caller parked in select returned the pair of its
\* goroutine, the context never cancelled and the goroutine ended.
C8_Witness ==
    \E c \in Calls :
        /\ callerPc[c] = "returned"
        /\ retVia[c] = "chResult"
        /\ ctxErr[c] = Nil
        /\ workerPc[c] = "done"
        /\ httpCalls[c] = 1

\* C9: when generateAuthQuery returned an error, no httpDo call and no
\* decode are made, doGet... returned (nil, that error), and a call that
\* returns through the receive case returns exactly that pair.
C9_AuthErrorPropagated ==
    \A c \in Calls :
        authErr[c] \in AuthErrors =>
            /\ httpCalls[c] = 0
            /\ decodeCalls[c] = 0
            /\ workerPc[c] \in {"send", "parked", "done"}
            /\ workerOut[c] = Pair(NilResponse, authErr[c])
            /\ retVia[c] = "chResult" => ret[c] = Pair(NilResponse, authErr[c])

\* C9 witness: a call returned the error of generateAuthQuery.
C9_Witness ==
    \E c \in Calls :
        /\ authErr[c] \in AuthErrors
        /\ retVia[c] = "chResult"
        /\ ret[c].err = authErr[c]

\* C10: a call makes at most one httpDo call, and when httpDo returned an
\* error no decode is made and doGet... returned (nil, that error).
C10_TransportErrorNoRetry ==
    \A c \in Calls :
        /\ httpCalls[c] <= 1
        /\ httpErr[c] \in TransportErrors =>
            /\ httpCalls[c] = 1
            /\ decodeCalls[c] = 0
            /\ workerPc[c] \in {"send", "parked", "done"}
            /\ workerOut[c] = Pair(NilResponse, httpErr[c])

\* C10 witness: the goroutine of a call ended after httpDo returned an error.
C10_Witness ==
    \E c \in Calls :
        /\ httpErr[c] \in TransportErrors
        /\ workerPc[c] = "done"

\* The positions of the separator in the string s, the k-th of them, and the
\* k-th of the pieces they cut s into.
Bars(s) == {i \in 1..Len(s) : SubSeq(s, i, i) = "|"}
Bar(s, k) == CHOOSE i \in Bars(s) : Cardinality({j \in Bars(s) : j < i}) = k - 1
NumPieces(s) == Cardinality(Bars(s)) + 1
Piece(s, k) ==
    SubSeq(s, IF k = 1 THEN 1 ELSE Bar(s, k - 1) + 1,
              IF k = NumPieces(s) THEN Len(s) ELSE Bar(s, k) - 1)

\* C11: for a non-empty Path, in both operations, the query handed to
\* generateAuthQuery has exactly one path value; cut at its `|` separators it
\* has as many pieces as the Path has elements, and the i-th piece is the
\* String() form of the i-th element.
C11_PathJoinedInOrder ==
    \A c \in Calls :
        (authCalls[c] = 1 /\ Len(req[c].Path) > 0) =>
            /\ Len(query[c]["path"]) = 1
            /\ LET v == query[c]["path"][1]
               IN  /\ NumPieces(v) = Len(req[c].Path)
                   /\ \A i \in 1..Len(req[c].Path) :
                        Piece(v, i) = String(req[c].Path[i])

\* C11 witness: a query was handed to generateAuthQuery for a Path of two
\* different coordinates.
C11_Witness ==
    \E c \in Calls :
        /\ authCalls[c] = 1
        /\ Len(req[c].Path) >= 2
        /\ req[c].Path[1] # req[c].Path[2]
        /\ query[c]["path"] # <<>>

\* C12: the placeId values of the query handed to generateAuthQuery by
\* SpeedLimits are, as a sequence, the PlaceID list of the request.
C12_PlaceIDsSeparateInOrder ==
    \A c \in Calls :
        (authCalls[c] = 1 /\ req[c].op = "SpeedLimits") =>
            /\ query[c]["placeId"] = req[c].PlaceID
            /\ Len(req[c].PlaceID) = 0 => query[c]["placeId"] = <<>>

\* C12 witness: a query was handed to generateAuthQuery for a PlaceID list
\* that holds the same id twice.
C12_Witness ==
    \E c \in Calls :
        /\ authCalls[c] = 1
        /\ req[c].op = "SpeedLimits"
        /\ Len(req[c].PlaceID) >= 2
        /\ req[c].PlaceID[1] = req[c].PlaceID[2]
        /\ Len(query[c]["placeId"]) >= 2

\* C13: in the query handed to generateAuthQuery, SnapToRoad has the single
\* interpolate value "true" when Interpolate is set and no interpolate value
\* otherwise; SpeedLimits has the single units value r.Units when Units is
\* non-empty and none otherwise, and has a path value exactly when Path is
\* non-empty.
C13_OptionalParametersIff ==
    \A c \in Calls :
        authCalls[c] = 1 =>
            IF req[c].op = "SnapToRoad"
            THEN query[c]["interpolate"] =
                    IF req[c].Interpolate THEN <<"true">> ELSE <<>>
            ELSE /\ query[c]["units"] =
                    IF req[c].Units # "" THEN <<req[c].Units>> ELSE <<>>
                 /\ (query[c]["path"] # <<>>) <=> (Len(req[c].Path) > 0)

\* C13 witness: a SnapToRoad query was built with Interpolate unset.
C13_Witness ==
    \E c \in Calls :
        /\ authCalls[c] = 1
        /\ req[c].op = "SnapToRoad"
        /\ ~req[c].Interpolate
        /\ query[c]["path"] # <<>>

\* The caller of call c is in its select: about to execute it, parked in it,
\* or woken and not yet resumed.
Waiting(c) == callerPc[c] \in {"select", "blocked", "wokeResult", "wokeDone"}

\* C14: with only the callers scheduled fairly, a call whose caller is in its
\* select with the context cancelled eventually returns, whatever the
\* goroutine does, a httpDo call that never returns included.
C14_CancelledCallerReturns ==
    \A c \in Calls :
        (Waiting(c) /\ ctxErr[c] # Nil) ~> (callerPc[c] = "returned")

\* C14 witness: a call has returned through the Done case while the httpDo
\* call of its goroutine is still in flight.
C14_Witness ==
    \E c \in Calls :
        /\ callerPc[c] = "returned"
        /\ retVia[c] = "ctxDone"
        /\ workerPc[c] = "inflight"

\* The request of call c passed the validation of its operation.
Validated(c) ==
    /\ req[c] # NoRequest
    /\ IF req[c].op = "SnapToRoad" THEN ~SnapToRoadInvalid(req[c])
       ELSE ~SpeedLimitsInvalid(req[c])

\* The last stage of doGet... in call c has finished: http.NewRequest failed,
\* generateAuthQuery or httpDo returned an error, or Decode has run.
LastStageFinished(c) ==
    \/ authCalls[c] = 0 /\ workerOut[c] = Pair(NilResponse, NewRequestError)
    \/ authErr[c] \in AuthErrors /\ httpCalls[c] = 0
    \/ httpErr[c] \in TransportErrors /\ decodeCalls[c] = 0
    \/ decodeCalls[c] = 1

\* C15: in every step, for every call: generateAuthQuery is called only once
\* and only for a validated request whose goroutine was started; httpDo is
\* called only once and only after generateAuthQuery returned nil; Decode
\* runs only once and only after httpDo returned nil; and the goroutine
\* enters its channel send only with the pair doGet... returned, after the
\* last stage has finished.
C15_StagesInOrderOnce ==
    [][\A c \in Calls :
        /\ authCalls'[c] # authCalls[c] =>
            /\ authCalls[c] = 0 /\ authCalls'[c] = 1
            /\ Validated(c) /\ spawned[c] = 1
            /\ httpCalls[c] = 0 /\ decodeCalls[c] = 0
        /\ httpCalls'[c] # httpCalls[c] =>
            /\ httpCalls[c] = 0 /\ httpCalls'[c] = 1
            /\ authCalls[c] = 1 /\ authErr[c] = Nil
            /\ decodeCalls[c] = 0
        /\ decodeCalls'[c] # decodeCalls[c] =>
            /\ decodeCalls[c] = 0 /\ decodeCalls'[c] = 1
            /\ httpCalls[c] = 1 /\ httpErr[c] = Nil
        /\ (workerPc'[c] # workerPc[c] /\ workerPc'[c] \in {"parked", "done"}) =>
            /\ workerPc[c] \in {"send", "parked"}
            /\ LastStageFinished(c)
            /\ workerOut'[c] = workerOut[c]
            /\ UNCHANGED <<authCalls, httpCalls, decodeCalls>>
      ]_vars

\* C15 witness: a call went through every stage and its caller returned the
\* pair handed over on the channel.
C15_Witness ==
    \E c \in Calls :
        /\ authCalls[c] = 1
        /\ httpCalls[c] = 1
        /\ decodeCalls[c] = 1
        /\ workerPc[c] = "done"
        /\ retVia[c] = "chResult"

\* Everything call c owns: its context, its request, the position and the
\* result of its caller, its goroutine, its channel.
CallState(c) ==
    <<ctxErr[c], req[c], callerPc[c], ret[c], retVia[c], retCount[c],
      spawned[c], workerPc[c], query[c], workerOut[c], chResult[c],
      authCalls[c], httpCalls[c], decodeCalls[c], authErr[c], httpErr[c],
      httpResp[c]>>

\* The response type of the operation call c is a call of.
ResponseType(c) ==
    IF req[c].op = "SnapToRoad" THEN "SnapToRoadResponse"
    ELSE "SpeedLimitsResponse"

\* C16: with two calls running concurrently on one client, in any
\* interleaving: the response object a goroutine produces is the one made in
\* its own call and of its operation's type; what a caller receives from its
\* channel and what it returns through the receive case is the pair of its
\* own goroutine; a caller returns through the Done case only when its own
\* context is cancelled, and then its own ctx.Err(); and no step, the
\* cancellation of a context included, changes anything of a call other than
\* the one that takes the step.
C16_CallsIsolated ==
    /\ [](\A c \in DOMAIN callerPc :
            /\ workerOut[c].response # NilResponse =>
                /\ workerOut[c].response.call = c
                /\ workerOut[c].response.type = ResponseType(c)
            /\ callerPc[c] = "wokeResult" => chResult[c] = workerOut[c]
            /\ retVia[c] = "chResult" =>
                /\ ret[c] = workerOut[c]
                /\ ret[c].response # NilResponse => ret[c].response.call = c
            /\ retVia[c] = "ctxDone" =>
                /\ ctxErr[c] # Nil
                /\ ret[c] = Pair(NilResponse, ctxErr[c]))
    /\ [][\A c, d \in DOMAIN callerPc :
            (c # d /\ CallState(c)' # CallState(c)) =>
                CallState(d)' = CallState(d)]_vars

\* C16 witness: two calls are in their selects at the same time, the caller
\* of one woken by the cancellation of its context and the caller of the
\* other by the pair of its own goroutine, which holds a response.
C16_Witness ==
    \E c, d \in DOMAIN callerPc :
        /\ c # d
        /\ callerPc[c] = "wokeDone"
        /\ callerPc[d] = "wokeResult"
        /\ chResult[d].response # NilResponse
        /\ chResult[d].response.call = d

\* C17: no step changes the client's baseURL, and no step changes the Path,
\* PlaceID, Interpolate or Units of a request a call was made with: from the
\* call on, through every return of the caller and until the goroutine has
\* ended, they are what the call was given.
C17_InputsUnchanged ==
    [][/\ baseURL' = baseURL
       /\ \A c \in Calls :
            req[c] # NoRequest =>
                /\ req'[c].Path = req[c].Path
                /\ req'[c].PlaceID = req[c].PlaceID
                /\ req'[c].Interpolate = req[c].Interpolate
                /\ req'[c].Units = req[c].Units
      ]_vars

\* C17 witness: on a client with baseURL unset, a call with a non-empty Path
\* has returned and its goroutine, which went through every stage, has ended.
C17_Witness ==
    \E c \in Calls :
        /\ baseURL = ""
        /\ callerPc[c] = "returned"
        /\ decodeCalls[c] = 1
        /\ workerPc[c] = "done"
        /\ Len(req[c].Path) > 0

\* The error the validation of the operation of call c reports.
ValidationError(c) ==
    IF req[c].op = "SnapToRoad" THEN SnapToRoadValidationError
    ELSE SpeedLimitsValidationError

\* C18: a call made on an already cancelled context with a request that
\* fails validation has returned (nil, validation error), not ctx.Err(), and
\* has started no goroutine.
C18_ValidationBeforeCancellation ==
    \A c \in Calls :
        (ctxAtCall[c] \in CtxErrors /\ ~Validated(c)) =>
            /\ callerPc[c] = "returned"
            /\ retVia[c] = "validation"
            /\ ret[c] = Pair(NilResponse, ValidationError(c))
            /\ ret[c].err # ctxErr[c]
            /\ spawned[c] = 0
            /\ workerPc[c] = "none"

\* C18 witness: a call whose request fails validation was made after its
\* context had been cancelled.
C18_Witness ==
    \E c \in Calls :
        /\ ctxAtCall[c] \in CtxErrors
        /\ ctxErr[c] \in CtxErrors
        /\ ~Validated(c)
        /\ callerPc[c] = "returned"

\* The goroutine of call c has not reached its channel send yet.
InDoGet(c) == workerPc[c] \in {"sign", "http", "inflight", "decode"}

\* The goroutine of call c is past doGet....
PastDoGet(c) == workerPc[c] \in {"send", "parked", "done"}

\* C19: every call that passed validation has started exactly one goroutine;
\* whatever the state of its context and of its caller, that goroutine can
\* always take its next step while it is in doGet..., and once it is past
\* doGet... it has called generateAuthQuery once and, when that returned
\* nil, httpDo once.
C19_NetworkCallNeverSuppressed ==
    \A c \in Calls :
        Validated(c) =>
            /\ spawned[c] = 1
            /\ InDoGet(c) => ENABLED Worker(c)
            /\ PastDoGet(c) =>
                /\ authCalls[c] = 1
                /\ authErr[c] = Nil => httpCalls[c] = 1

\* C19, amended: as above, for a goroutine whose http.NewRequest succeeded;
\* one whose http.NewRequest failed ends doGet... with that error and calls
\* neither generateAuthQuery nor httpDo.
C19_NetworkCallUnlessNewRequestFails ==
    \A c \in Calls :
        Validated(c) =>
            /\ spawned[c] = 1
            /\ workerPc[c] # "none"
            /\ InDoGet(c) => ENABLED Worker(c)
            /\ PastDoGet(c) =>
                IF NewRequestFails(RequestURL(baseURL, Endpoint(req[c])))
                THEN /\ authCalls[c] = 0
                     /\ httpCalls[c] = 0
                     /\ workerOut[c] = Pair(NilResponse, NewRequestError)
                ELSE /\ authCalls[c] = 1
                     /\ httpCalls[c] = IF authErr[c] = Nil THEN 1 ELSE 0

\* C19 witness: a call made on an already cancelled context has returned
\* ctx.Err(), and its goroutine has signed the query and called httpDo.
C19_Witness ==
    \E c \in Calls :
        /\ ctxAtCall[c] \in CtxErrors
        /\ retVia[c] = "ctxDone"
        /\ authCalls[c] = 1
        /\ httpCalls[c] = 1
        /\ PastDoGet(c)

====
